---------------------------- MODULE Spec2Model ----------------------------
(***************************************************************************)
(* Model of ledger-prompts-ui (src/src/lib.rs): the bounded text sink      *)
(* PromptWrite, the paginated scroller WriteScroller (single-row and       *)
(* three-row layouts), its title formatter, its button-driven navigation  *)
(* loop, and the menu helper (show_menu, handle_menu_button_event).        *)
(*                                                                         *)
(* A str is a sequence of bytes (integers).  A byte < 0 stands for a UTF-8 *)
(* continuation byte; every other byte starts a character.  The logical    *)
(* content of a producer is a prefix of a byte stream whose bytes differ    *)
(* within one period, so that a missing, duplicated or reordered byte is   *)
(* visible.                                                                *)
(***************************************************************************)
EXTENDS Integers, Sequences, FiniteSets, TLC

VARIABLES
    \* ---- WriteScroller (ask_err / ask_three_rows_err) ----
    layout,       \* "ask_err" or "ask_three_rows_err"
    show_index,   \* the show_index argument
    title,        \* self.title
    contents,     \* self.contents, the producer: [len, chunk, fallible]
    pc,           \* "call", "loop" (blocked in get_event), "returned", "panicked";
                  \* "idle" when no scroller runs
    content_len,  \* max(1, get_length()) as used by the page arithmetic
    page_count,
    cur_page,
    result,       \* what ask_err returned: "pending", "Ok_true", "Ok_false", "Err"
    screen,       \* what is displayed: [labels, icons]
    seen,         \* history: pages whose draw completed
    failed,       \* history: some producer call returned Err
    nDraws,       \* history: invocations of the draw closure
    nCalls,       \* history: invocations of the producer
    nLeft,        \* history: LeftButtonRelease events handled
    nRight,       \* history: RightButtonRelease events handled
    twin,         \* ask_err's navigation loop run over the same page_count, the same
                  \* events and the same draw outcomes as the running layout
    \* ---- PromptWrite on its own ----
    sink,         \* the PromptWrite: [offset, buffer, total]
    skip,         \* history: the offset the PromptWrite was created with
    offered,      \* history: concatenation of every text passed to write_str
    rv,           \* what the last write_str returned: "none", "Ok", "Err", "Panic"
    \* ---- make_title_buffer on its own ----
    title_label,  \* the row-one label [rv, buffer] made for (show_index, title, cur_page,
                  \* page_count)
    \* ---- the menu helper ----
    menu          \* a Menu in the hands of a caller: its state (item), the history of
                  \* its capabilities invoked (log), what the last
                  \* handle_menu_button_event returned (ret: <<>> is None, <<v>> is
                  \* Some(v)), the label on screen (shown), and the calls the caller
                  \* made (draws, events, last)

scrollerVars == <<layout, show_index, title, contents, pc, content_len, page_count,
                  cur_page, result, screen, seen, failed, nDraws, nCalls, nLeft, nRight,
                  twin>>
sinkVars == <<sink, skip, offered, rv>>
vars == <<scrollerVars, sinkVars, title_label, menu>>

---------------------------------------------------------------------------
(* Program constants *)

\* write_scroller / write_scroller_three_rows: WriteScroller::<_, 16>
CHAR_N == 16
\* make_title_buffer: ArrayString<16>
TITLE_N == 16
\* ask_err / ask_three_rows_err: if page_count > 1000 { panic!(..) }
MAX_PAGES == 1000

(* Bounds of the model *)

\* stream lengths of the scroller runs: rows 0..MaxRows, one byte around each row end
MaxRows == 3
\* LeftButtonRelease events handled in one run
MaxLefts == 2
\* skip offsets of a PromptWrite on its own
MaxSkip == 20
\* length of one text passed to write_str
MaxText == 20
\* total length offered to a PromptWrite on its own
MaxOffered == 40
\* title lengths
MaxTitle == 17

---------------------------------------------------------------------------
(* Helpers *)

Min(a, b) == IF a < b THEN a ELSE b
Max(a, b) == IF a > b THEN a ELSE b

\* Period of the content bytes: longer than every short content, and the contents
\* at the page limit are a whole number of periods.
ContentPeriod == CHAR_N * MAX_PAGES

\* The logical content is periodic: byte i (1-based) has value ContentByte(i), and
\* the bytes of one period are all different.
ContentByte(i) == ((i - 1) % ContentPeriod) + 1

\* One period of the content.
Stream == [i \in 1..ContentPeriod |-> i] \o <<>>

\* The n bytes of the content that follow its first `from` bytes.
Text(from, n) ==
    LET o == from % ContentPeriod
    IN  IF o = 0 /\ n = ContentPeriod THEN Stream
        ELSE IF o + n <= ContentPeriod THEN SubSeq(Stream, o + 1, o + n)
        ELSE [j \in 1..n |-> ContentByte(from + j)]

\* str::is_char_boundary: index i (0-based) of s starts a character or ends s.
is_char_boundary(s, i) ==
    \/ i = 0
    \/ i = Len(s)
    \/ (i > 0 /\ i < Len(s) /\ s[i + 1] >= 0)

\* &s[lo..hi]: panics unless lo <= hi <= len and both are character boundaries.
str_slice(s, lo, hi) ==
    IF lo <= hi /\ hi <= Len(s) /\ is_char_boundary(s, lo) /\ is_char_boundary(s, hi)
    THEN [panic |-> FALSE, str |-> SubSeq(s, lo + 1, hi)]
    ELSE [panic |-> TRUE, str |-> <<>>]

---------------------------------------------------------------------------
(* ArrayString<N> and PromptWrite<N> *)

ArrayString_new(N) == [N |-> N, s |-> <<>>]

remaining_capacity(buffer) == buffer.N - Len(buffer.s)

\* ArrayString::try_push_str: Err (buffer untouched) when s does not fit.
try_push_str(buffer, s) ==
    IF Len(s) > remaining_capacity(buffer)
    THEN [buffer |-> buffer, rv |-> "Err"]
    ELSE [buffer |-> [buffer EXCEPT !.s = @ \o s], rv |-> "Ok"]

\* ArrayString::push_str: try_push_str(..).unwrap()
push_str(buffer, s) ==
    LET r == try_push_str(buffer, s)
    IN  [buffer |-> r.buffer, rv |-> IF r.rv = "Ok" THEN "Ok" ELSE "Panic"]

PromptWrite(offset, buffer) == [offset |-> offset, buffer |-> buffer, total |-> 0]

mk_prompt_write(buffer) == PromptWrite(0, buffer)

write_str_skip_at_start(self, s) ==
    \* faulty variant: the skip is applied to every text, not consumed across calls
    LET offset_in_s == Min(self.offset, Len(s))
        sl == str_slice(s, offset_in_s,
                        Min(Len(s), offset_in_s + remaining_capacity(self.buffer)))
        r == try_push_str(self.buffer, sl.str)
    IN  [self |-> [self EXCEPT !.total = @ + Len(s), !.buffer = r.buffer], rv |-> r.rv]

write_str_counts_kept(self, s) ==
    \* faulty variant: total counts only the bytes that were kept
    LET offset_in_s == Min(self.offset, Len(s))
        offset == self.offset - offset_in_s
        sl == str_slice(s, offset_in_s,
                        Min(Len(s), offset_in_s + remaining_capacity(self.buffer)))
        r == try_push_str(self.buffer, sl.str)
    IN  IF offset > 0
        THEN [self |-> [self EXCEPT !.offset = offset], rv |-> "Ok"]
        ELSE [self |-> [self EXCEPT !.total = @ + Len(sl.str), !.offset = offset,
                                    !.buffer = r.buffer],
              rv |-> r.rv]

\* impl Write for PromptWrite: write_str(&mut self, s)
write_str(self, s) ==
    LET total == self.total + Len(s)
        offset_in_s == Min(self.offset, Len(s))
        offset == self.offset - offset_in_s
    IN  IF offset > 0
        THEN [self |-> [self EXCEPT !.total = total, !.offset = offset], rv |-> "Ok"]
        ELSE LET sl == str_slice(s, offset_in_s,
                                 Min(Len(s), offset_in_s + remaining_capacity(self.buffer)))
                 r == try_push_str(self.buffer, sl.str)
             IN  IF sl.panic
                 THEN [self |-> [self EXCEPT !.total = total, !.offset = offset],
                       rv |-> "Panic"]
                 ELSE [self |-> [self EXCEPT !.total = total, !.offset = offset,
                                             !.buffer = r.buffer],
                       rv |-> r.rv]


---------------------------------------------------------------------------
(* The content producer `contents`: F: Fn(&mut PromptWrite) -> Result<(), ScrollerError> *)

\* A producer writes the first contents.len bytes of the content, in texts of
\* contents.chunk bytes (the last one shorter).  Only a fallible producer ever
\* returns Err of its own.
NChunks(c) == (c.len + c.chunk - 1) \div c.chunk

Chunk(c, k) == Text((k - 1) * c.chunk, Min(c.chunk, c.len - (k - 1) * c.chunk))

\* The producer's writes k..NChunks, each followed by `?`.
RECURSIVE write_all(_, _, _)
write_all(c, pw, k) ==
    IF k > NChunks(c) THEN [pw |-> pw, rv |-> "Ok"]
    ELSE LET r == write_str(pw, Chunk(c, k))
         IN  IF r.rv = "Ok" THEN write_all(c, r.self, k + 1)
             ELSE [pw |-> r.self, rv |-> r.rv]

\* (self.contents)(&mut pw): `fail` is the producer's own choice to return Err.
call_contents(c, pw, fail) ==
    IF fail /\ c.fallible THEN [pw |-> pw, rv |-> "Err"] ELSE write_all(c, pw, 1)

\* WriteScroller::get_length
get_length(c, fail) ==
    LET r == call_contents(c, PromptWrite(0, ArrayString_new(CHAR_N)), fail)
    IN  [rv |-> r.rv, length |-> r.pw.total]

---------------------------------------------------------------------------
(* Title formatter *)

\* ASCII codes
SPACE == 32
LPAREN == 40
RPAREN == 41
SLASH == 47
DIGIT0 == 48
LETTER_A == 65

\* Display for usize: the decimal digits of n
RECURSIVE Dec(_)
Dec(n) == IF n < 10 THEN <<DIGIT0 + n>> ELSE Dec(n \div 10) \o <<DIGIT0 + (n % 10)>>

\* write!(w, " ({}/{})", a, b): the texts handed to write_str, in order
FmtIndex(a, b) == << <<SPACE, LPAREN>>, Dec(a), <<SLASH>>, Dec(b), <<RPAREN>> >>

RECURSIVE write_fmt(_, _, _)
write_fmt(pw, pieces, k) ==
    IF k > Len(pieces) THEN [pw |-> pw, rv |-> "Ok"]
    ELSE LET r == write_str(pw, pieces[k])
         IN  IF r.rv = "Ok" THEN write_fmt(r.self, pieces, k + 1)
             ELSE [pw |-> r.self, rv |-> r.rv]

\* Number of chars needed to show " (x/y)"
len_needed(pages) == 4 + (IF pages < 10 THEN 2 ELSE IF pages < 100 THEN 4 ELSE 6)

\* WriteScroller::make_title_buffer
make_title_buffer(t, page, pages) ==
    LET pushed == push_str(ArrayString_new(TITLE_N), t)
    IN  IF pushed.rv = "Panic" THEN [rv |-> "Panic", buffer |-> <<>>]
        ELSE IF pages > 1 /\ Len(t) <= TITLE_N - len_needed(pages)
        THEN LET w == write_fmt(mk_prompt_write(pushed.buffer),
                                FmtIndex(page + 1, pages), 1)
             IN  [rv |-> IF w.rv = "Panic" THEN "Panic" ELSE "Ok", buffer |-> w.pw.buffer.s]
        ELSE [rv |-> "Ok", buffer |-> pushed.buffer.s]

\* The draw closures' title row: if show_index { make_title_buffer } else { self.title }
title_row(show, t, page, pages) ==
    IF show THEN make_title_buffer(t, page, pages) ELSE [rv |-> "Ok", buffer |-> t]

---------------------------------------------------------------------------
(* The display *)

\* clear_screen()
Blank == [labels |-> <<>>, icons |-> {}]

\* Label::from(text).location(loc).display()
display(scr, loc, text) == [scr EXCEPT !.labels = Append(@, [loc |-> loc, text |-> text])]

\* icon.instant_display()
instant_display(scr, icon) == [scr EXCEPT !.icons = @ \cup {icon}]

draw_glyphs_left_always(scr, page, pages) ==
    \* faulty variant: the left arrow is shown on every page
    LET l == instant_display(scr, "LEFT_ARROW")
    IN  IF page + 1 < pages THEN instant_display(l, "RIGHT_ARROW")
        ELSE instant_display(l, "RIGHT_CHECK")

\* The tail of the draw closure of ask_err: the navigation glyphs of `page`
draw_glyphs(scr, page, pages) ==
    LET l == IF page > 0 THEN instant_display(scr, "LEFT_ARROW") ELSE scr
    IN  IF page + 1 < pages THEN instant_display(l, "RIGHT_ARROW")
        ELSE instant_display(l, "RIGHT_CHECK")

\* The tail of the draw closure of ask_three_rows_err: the navigation glyphs of `page`
draw_glyphs_three(scr, page, pages) ==
    LET l == IF page > 0 THEN instant_display(scr, "LEFT_ARROW") ELSE scr
    IN  IF page + 1 < pages THEN instant_display(l, "RIGHT_ARROW")
        ELSE instant_display(l, "RIGHT_CHECK")

\* Rows per page of a layout
RowsPerPage(lay) == IF lay = "ask_err" THEN 1 ELSE 3

page_count_of_floor(lay, clen) ==
    \* faulty variant: the division rounds down, with no page for a remainder
    clen \div (CHAR_N * RowsPerPage(lay))

page_count_of_no_decrement(lay, clen) ==
    \* faulty variant: the length is not decremented before the division
    clen \div (CHAR_N * RowsPerPage(lay)) + 1

\* ask_err: (max(1, get_length()?) - 1) / CHAR_N + 1
\* ask_three_rows_err: (content_len - 1) / (CHAR_N * 3) + 1
page_count_of(lay, clen) == (clen - 1) \div (CHAR_N * RowsPerPage(lay)) + 1

too_many_pages_at_limit(pages) ==
    \* faulty variant: the limit itself already aborts
    pages >= MAX_PAGES

\* if page_count > 1000 { panic!(..) }
too_many_pages(pages) == pages > MAX_PAGES

\* Offset of the row of `page` in the single-row layout: page * CHAR_N
row_offset_one(page) == page * CHAR_N

row_offset_three_by_row(page, i) ==
    \* faulty variant: pages advance by one row instead of three
    (page + i) * CHAR_N

\* Offset of row i (0..2) of `page` in the three-row layout:
\* (3 * page) * CHAR_N, ((3 * page) + 1) * CHAR_N, ((3 * page) + 2) * CHAR_N
row_offset_three(page, i) == ((3 * page) + i) * CHAR_N

\* The draw closure of ask_err.  fail = 1: the producer call returns Err.
\* Result: [rv, screen, calls]
draw_one(show, t, c, pages, page, fail) ==
    LET cleared == Blank
        offset == row_offset_one(page)
        r == call_contents(c, PromptWrite(offset, ArrayString_new(CHAR_N)), fail = 1)
        tr == title_row(show, t, page, pages)
        withTitle == display(cleared, "Top", tr.buffer)
        withRow == display(withTitle, "Custom(15)", r.pw.buffer.s)
    IN  IF r.rv # "Ok" THEN [rv |-> r.rv, screen |-> cleared, calls |-> 1]
        ELSE IF tr.rv # "Ok" THEN [rv |-> tr.rv, screen |-> cleared, calls |-> 1]
        ELSE [rv |-> "Ok", screen |-> draw_glyphs(withRow, page, pages), calls |-> 1]

\* One row block of the draw closure of ask_three_rows_err: row i (0..2) at loc,
\* drawn after the state d = [rv, screen, calls]; row 0 is unconditional.
draw_row(d, c, clen, page, i, loc, fail) ==
    IF d.rv # "Ok" THEN d
    ELSE IF i > 0 /\ ~(clen > row_offset_three(page, i)) THEN d
    ELSE LET offset == row_offset_three(page, i)
             r == call_contents(c, PromptWrite(offset, ArrayString_new(CHAR_N)),
                                fail = d.calls + 1)
         IN  IF r.rv # "Ok" THEN [rv |-> r.rv, screen |-> d.screen, calls |-> d.calls + 1]
             ELSE [rv |-> "Ok", screen |-> display(d.screen, loc, r.pw.buffer.s),
                   calls |-> d.calls + 1]

\* The draw closure of ask_three_rows_err.  fail = k: the k-th producer call of this
\* draw returns Err (0: none does).
draw_three(show, t, c, clen, pages, page, fail) ==
    LET tr == title_row(show, t, page, pages)
        d0 == [rv |-> tr.rv, screen |-> IF tr.rv = "Ok" THEN display(Blank, "Top", tr.buffer)
                                        ELSE Blank,
               calls |-> 0]
        d1 == draw_row(d0, c, clen, page, 0, "Custom(16)", fail)
        d2 == draw_row(d1, c, clen, page, 1, "Custom(31)", fail)
        d3 == draw_row(d2, c, clen, page, 2, "Custom(46)", fail)
    IN  IF d3.rv # "Ok" THEN d3
        ELSE [d3 EXCEPT !.screen = draw_glyphs_three(@, page, pages)]

\* draw(page) of the running layout
draw(lay, show, t, c, clen, pages, page, fail) ==
    IF lay = "ask_err" THEN draw_one(show, t, c, pages, page, fail)
    ELSE draw_three(show, t, c, clen, pages, page, fail)

---------------------------------------------------------------------------
(* Initial states *)

\* A title of t characters: "AB.."
TitleOf(t) == [i \in 1..t |-> LETTER_A + i - 1]

\* Stream lengths around the row ends 0, CHAR_N, .., MaxRows * CHAR_N
Lens == {n \in {k * CHAR_N + d : k \in 0..MaxRows, d \in {-1, 0, 1}} : n >= 0}

\* How a producer splits its text into write_str calls
ChunkSizes == {5, CHAR_N + 1, ContentPeriod}

\* (show_index, title length) of the scroller runs; titles fit the title buffer
TitleArgs == {<<FALSE, 2>>, <<TRUE, 10>>, <<TRUE, 11>>}

NoLabel == [rv |-> "none", buffer |-> <<>>]

\* No menu is in use
NoMenu == [item |-> 0, log |-> <<>>, ret |-> <<>>, shown |-> <<>>, draws |-> 0, events |-> 0,
           last |-> "none"]

\* The navigation state of a run that has not started
NoTwin == [pc |-> "call", cur_page |-> 0, result |-> "pending", icons |-> {},
           drawn |-> << >>, nDraws |-> 0]

NoSink ==
    /\ sink = PromptWrite(0, ArrayString_new(CHAR_N))
    /\ skip = 0
    /\ offered = <<>>
    /\ rv = "none"

NoScroller ==
    /\ layout = "none"
    /\ contents = [len |-> 0, chunk |-> 1, fallible |-> FALSE]
    /\ pc = "idle"
    /\ content_len = 0
    /\ result = "pending"
    /\ screen = Blank
    /\ seen = {}
    /\ failed = FALSE
    /\ nDraws = 0
    /\ nCalls = 0
    /\ nLeft = 0
    /\ nRight = 0
    /\ twin = NoTwin

\* WriteScroller::new(title, contents) followed by a call of ask_err / ask_three_rows_err
ScrollerStart(largs, chunks, fallible, targs) ==
    /\ \E la \in largs :
          /\ layout = la[1]
          /\ contents \in [len : {la[2]}, chunk : chunks, fallible : {fallible}]
    /\ \E ta \in targs : show_index = ta[1] /\ title = TitleOf(ta[2])
    /\ pc = "call"
    /\ content_len = 0
    /\ page_count = 0
    /\ cur_page = 0
    /\ result = "pending"
    /\ screen = Blank
    /\ seen = {}
    /\ failed = FALSE
    /\ nDraws = 0
    /\ nCalls = 0
    /\ nLeft = 0
    /\ nRight = 0
    /\ twin = NoTwin
    /\ title_label = NoLabel
    /\ NoSink
    /\ menu = NoMenu

Layouts == {"ask_err", "ask_three_rows_err"}

\* Short contents, of producers that may fail in any call
Init == ScrollerStart(Layouts \X Lens, ChunkSizes, TRUE, TitleArgs)

\* Content at the page limit of each layout: MAX_PAGES full pages, and one byte more,
\* of producers that never fail
LimitArgs == {<<l, RowsPerPage(l) * CHAR_N * MAX_PAGES + d>> : l \in Layouts, d \in {0, 1}}

InitLimit == ScrollerStart(LimitArgs, {ContentPeriod}, FALSE, {<<TRUE, 6>>})

\* A PromptWrite created with a skip offset over an empty buffer
InitSink ==
    /\ skip \in 0..MaxSkip
    /\ sink = PromptWrite(skip, ArrayString_new(CHAR_N))
    /\ offered = <<>>
    /\ rv = "none"
    /\ NoScroller
    /\ show_index = FALSE
    /\ title = <<>>
    /\ page_count = 0
    /\ cur_page = 0
    /\ title_label = NoLabel
    /\ menu = NoMenu

\* Page counts around the digit widths; pages around them
PageCounts == {1, 2, 9, 10, 11, 99, 100, 101, 999, MAX_PAGES}
PagesOf(pages) == {p \in {0, 8, 9, 98, 99, 998, pages - 1} : p < pages}

\* The arguments of one title row
InitTitle ==
    /\ show_index \in BOOLEAN
    /\ title \in {TitleOf(t) : t \in 0..MaxTitle}
    /\ page_count \in PageCounts
    /\ cur_page \in PagesOf(page_count)
    /\ title_label = NoLabel
    /\ NoScroller
    /\ NoSink
    /\ menu = NoMenu

---------------------------------------------------------------------------
(* Actions of the scroller *)

Args == <<layout, show_index, title, contents>>

\* What a draw(page) leaves behind: the screen, the history, and where control goes
\* (Ok: on to get_event; Err: `?` returns it; Panic: abort).  `before` counts the
\* producer calls of this step that precede the draw.
AfterDraw(d, page, before) ==
    /\ screen' = d.screen
    /\ nDraws' = nDraws + 1
    /\ nCalls' = nCalls + before + d.calls
    /\ seen' = IF d.rv = "Ok" THEN seen \cup {page} ELSE seen
    /\ failed' = (failed \/ d.rv = "Err")
    /\ pc' = IF d.rv = "Ok" THEN "loop" ELSE IF d.rv = "Err" THEN "returned" ELSE "panicked"
    /\ result' = IF d.rv = "Err" THEN "Err" ELSE result

left_release_page_unguarded(page) ==
    \* faulty variant: the decrement is not guarded
    page - 1

\* LeftButtonRelease: if cur_page > 0 { cur_page -= 1; }
left_release_page(page) == IF page > 0 THEN page - 1 ELSE page

right_release_page_skips(page, pages) ==
    \* faulty variant: a right release advances by two pages
    IF page + 1 < pages THEN page + 2 ELSE IF page < pages THEN page + 1 ELSE page

\* RightButtonRelease: if cur_page < page_count { cur_page += 1; }
right_release_page(page, pages) == IF page < pages THEN page + 1 ELSE page

is_accepted_on_last_page(page, pages) ==
    \* faulty variant: accepts on reaching the last page instead of on leaving it
    page + 1 >= pages

\* RightButtonRelease: if cur_page == page_count { break Ok(true); }
is_accepted(page, pages) == page = pages

\* ask_three_rows_err, LeftButtonRelease: if cur_page > 0 { cur_page -= 1; }
left_release_page_three(page) == IF page > 0 THEN page - 1 ELSE page

\* ask_three_rows_err, RightButtonRelease: if cur_page < page_count { cur_page += 1; }
right_release_page_three(page, pages) == IF page < pages THEN page + 1 ELSE page

is_accepted_three_on_last_page(page, pages) ==
    \* faulty variant: the three-row loop accepts on reaching the last page
    page + 1 >= pages

\* ask_three_rows_err, RightButtonRelease: if cur_page == page_count { break Ok(true); }
is_accepted_three(page, pages) == page = pages

\* The page after a left release, a right release, and the accept test, of a layout
left_release(lay, page) ==
    IF lay = "ask_err" THEN left_release_page(page) ELSE left_release_page_three(page)

right_release(lay, page, pages) ==
    IF lay = "ask_err" THEN right_release_page(page, pages)
    ELSE right_release_page_three(page, pages)

accepted(lay, page, pages) ==
    IF lay = "ask_err" THEN is_accepted(page, pages) ELSE is_accepted_three(page, pages)

\* The twin: ask_err's loop (its page updates, accept test and glyphs) over a content
\* of pages pages, given the outcome rv of each draw.
TwinDraw(tw, page, pages, drv) ==
    [pc |-> IF drv = "Ok" THEN "loop" ELSE IF drv = "Err" THEN "returned" ELSE "panicked",
     cur_page |-> page,
     result |-> IF drv = "Err" THEN "Err" ELSE tw.result,
     icons |-> IF drv = "Ok" THEN draw_glyphs(Blank, page, pages).icons ELSE {},
     drawn |-> IF drv = "Ok" THEN <<page>> ELSE << >>,
     nDraws |-> tw.nDraws + 1]

TwinLeftRelease(tw, pages, drv) == TwinDraw(tw, left_release_page(tw.cur_page), pages, drv)

TwinRightRelease(tw, pages, drv) ==
    LET page == right_release_page(tw.cur_page, pages)
    IN  IF is_accepted(page, pages)
        THEN [tw EXCEPT !.cur_page = page, !.pc = "returned", !.result = "Ok_true"]
        ELSE TwinDraw(tw, page, pages, drv)

\* ask_err / ask_three_rows_err from entry to the first get_event (or to its return):
\* measure, count the pages, check the limit, draw page 0.
Ask(failM, fail) ==
    /\ pc = "call"
    /\ (failM \/ fail # 0) => contents.fallible
    /\ LET m == get_length(contents, failM)
           clen == Max(1, m.length)
           pages == page_count_of(layout, clen)
       IN  IF m.rv # "Ok"
           THEN /\ pc' = IF m.rv = "Err" THEN "returned" ELSE "panicked"
                /\ result' = IF m.rv = "Err" THEN "Err" ELSE result
                /\ nCalls' = nCalls + 1
                /\ failed' = (failed \/ m.rv = "Err")
                /\ twin' = [twin EXCEPT !.pc = pc', !.result = result']
                /\ UNCHANGED <<content_len, page_count, cur_page, screen, seen, nDraws>>
           ELSE IF pages = 0
           THEN /\ pc' = "returned"
                /\ result' = "Ok_true"
                /\ content_len' = clen
                /\ page_count' = pages
                /\ nCalls' = nCalls + 1
                /\ twin' = [twin EXCEPT !.pc = "returned", !.result = "Ok_true"]
                /\ UNCHANGED <<cur_page, screen, seen, failed, nDraws>>
           ELSE IF too_many_pages(pages)
           THEN /\ pc' = "panicked"
                /\ content_len' = clen
                /\ page_count' = pages
                /\ nCalls' = nCalls + 1
                /\ twin' = [twin EXCEPT !.pc = "panicked"]
                /\ UNCHANGED <<result, cur_page, screen, seen, failed, nDraws>>
           ELSE /\ content_len' = clen
                /\ page_count' = pages
                /\ cur_page' = 0
                /\ \E d \in {draw(layout, show_index, title, contents, clen, pages, 0,
                                    fail)} :
                       /\ AfterDraw(d, 0, 1)
                       /\ twin' = TwinDraw(twin, 0, pages, d.rv)
    /\ UNCHANGED <<Args, nLeft, nRight, sinkVars, title_label, menu>>

LeftButtonPress_pages_back ==
    \* faulty variant: the press already pages back, without a redraw
    /\ pc = "loop"
    /\ screen' = instant_display(screen, "LEFT_S_ARROW")
    /\ cur_page' = IF cur_page > 0 THEN cur_page - 1 ELSE cur_page
    /\ twin' = [twin EXCEPT !.icons = @ \cup {"LEFT_S_ARROW"}]
    /\ UNCHANGED <<Args, pc, content_len, page_count, result, seen, failed,
                   nDraws, nCalls, nLeft, nRight, sinkVars, title_label, menu>>

\* Some(ButtonEvent::LeftButtonPress)
LeftButtonPress ==
    /\ pc = "loop"
    /\ screen' = instant_display(screen, "LEFT_S_ARROW")
    /\ twin' = [twin EXCEPT !.icons = @ \cup {"LEFT_S_ARROW"}]
    /\ UNCHANGED <<Args, pc, content_len, page_count, cur_page, result, seen, failed,
                   nDraws, nCalls, nLeft, nRight, sinkVars, title_label, menu>>

\* Some(ButtonEvent::RightButtonPress)
RightButtonPress ==
    /\ pc = "loop"
    /\ screen' = instant_display(screen, "RIGHT_S_ARROW")
    /\ twin' = [twin EXCEPT !.icons = @ \cup {"RIGHT_S_ARROW"}]
    /\ UNCHANGED <<Args, pc, content_len, page_count, cur_page, result, seen, failed,
                   nDraws, nCalls, nLeft, nRight, sinkVars, title_label, menu>>

LeftButtonRelease_redraws_on_change(fail) ==
    \* faulty variant: the page is redrawn only if the page index changed
    /\ pc = "loop"
    /\ fail # 0 => contents.fallible
    /\ nLeft < MaxLefts
    /\ LET page == left_release(layout, cur_page)
       IN  /\ cur_page' = page
           /\ IF page = cur_page
              THEN UNCHANGED <<pc, result, screen, seen, failed, nDraws, nCalls, twin>>
              ELSE \E d \in {draw(layout, show_index, title, contents, content_len,
                                    page_count, page, fail)} :
                      /\ AfterDraw(d, page, 0)
                      /\ twin' = TwinLeftRelease(twin, page_count, d.rv)
    /\ nLeft' = nLeft + 1
    /\ UNCHANGED <<Args, content_len, page_count, nRight, sinkVars, title_label, menu>>

\* Some(ButtonEvent::LeftButtonRelease)
LeftButtonRelease(fail) ==
    /\ pc = "loop"
    /\ fail # 0 => contents.fallible
    /\ nLeft < MaxLefts
    /\ LET page == left_release(layout, cur_page)
       IN  /\ cur_page' = page
           /\ \E d \in {draw(layout, show_index, title, contents, content_len, page_count,
                            page, fail)} :
                  /\ AfterDraw(d, page, 0)
                  /\ twin' = TwinLeftRelease(twin, page_count, d.rv)
    /\ nLeft' = nLeft + 1
    /\ UNCHANGED <<Args, content_len, page_count, nRight, sinkVars, title_label, menu>>

\* Some(ButtonEvent::RightButtonRelease)
RightButtonRelease(fail) ==
    /\ pc = "loop"
    /\ fail # 0 => contents.fallible
    /\ LET page == right_release(layout, cur_page, page_count)
       IN  /\ cur_page' = page
           /\ IF accepted(layout, page, page_count)
              THEN /\ pc' = "returned"
                   /\ result' = "Ok_true"
                   /\ twin' = TwinRightRelease(twin, page_count, "Ok")
                   /\ UNCHANGED <<screen, seen, failed, nDraws, nCalls>>
              ELSE \E d \in {draw(layout, show_index, title, contents, content_len,
                                    page_count, page, fail)} :
                      /\ AfterDraw(d, page, 0)
                      /\ twin' = TwinRightRelease(twin, page_count, d.rv)
    /\ nRight' = nRight + 1
    /\ UNCHANGED <<Args, content_len, page_count, nLeft, sinkVars, title_label, menu>>

BothButtonsRelease_clears ==
    \* faulty variant: the screen is cleared before the rejection is returned
    /\ pc = "loop"
    /\ pc' = "returned"
    /\ result' = "Ok_false"
    /\ screen' = Blank
    /\ twin' = [twin EXCEPT !.pc = "returned", !.result = "Ok_false"]
    /\ UNCHANGED <<Args, content_len, page_count, cur_page, seen, failed, nDraws, nCalls,
                   nLeft, nRight, sinkVars, title_label, menu>>

\* Some(ButtonEvent::BothButtonsRelease) => break Ok(false)
BothButtonsRelease ==
    /\ pc = "loop"
    /\ pc' = "returned"
    /\ result' = "Ok_false"
    /\ twin' = [twin EXCEPT !.pc = "returned", !.result = "Ok_false"]
    /\ UNCHANGED <<Args, content_len, page_count, cur_page, screen, seen, failed, nDraws,
                   nCalls, nLeft, nRight, sinkVars, title_label, menu>>

\* Some(_) | None => (): BothButtonsPress, or no event
OtherEvent ==
    /\ pc = "loop"
    /\ UNCHANGED vars

\* Which producer call of a draw returns Err (0: none)
FailChoices == 0..3

Next ==
    \/ \E failM \in BOOLEAN, fail \in FailChoices : Ask(failM, fail)
    \/ LeftButtonPress
    \/ RightButtonPress
    \/ \E fail \in FailChoices : LeftButtonRelease(fail)
    \/ \E fail \in FailChoices : RightButtonRelease(fail)
    \/ BothButtonsRelease
    \/ OtherEvent

Spec == Init /\ [][Next]_vars

\* The short runs together with the runs at the page limit
SpecLimit == (Init \/ InitLimit) /\ [][Next]_vars

---------------------------------------------------------------------------
(* Outcomes seen by the callers *)

ask_unwrap_or_true(res) ==
    \* faulty variant: unwrap_or(true)
    IF res = "Ok_false" THEN FALSE ELSE TRUE

\* WriteScroller::ask / ask_three_rows: self.ask_err(show_index).unwrap_or(false)
ask(res) == IF res = "Ok_true" THEN TRUE ELSE FALSE

\* write_scroller / write_scroller_three_rows: None if !ask(..), else Some(())
write_scroller(res) == IF ~ask(res) THEN "None" ELSE "Some"

---------------------------------------------------------------------------
(* A PromptWrite on its own: texts offered one write_str at a time *)

WriteStr(n) ==
    /\ rv # "Panic"
    /\ Len(offered) + n <= MaxOffered
    /\ LET s == Text(Len(offered), n)
           r == write_str(sink, s)
       IN  /\ sink' = r.self
           /\ rv' = r.rv
           /\ offered' = offered \o s
    /\ UNCHANGED <<skip, scrollerVars, title_label, menu>>

NextSink == \E n \in 0..MaxText : WriteStr(n)

SpecSink == InitSink /\ [][NextSink]_vars

---------------------------------------------------------------------------
(* A title row on its own *)

FormatTitle ==
    /\ title_label.rv = "none"
    /\ title_label' = title_row(show_index, title, cur_page, page_count)
    /\ UNCHANGED <<scrollerVars, sinkVars, menu>>

NextTitle == FormatTitle

SpecTitle == InitTitle /\ [][NextTitle]_vars

---------------------------------------------------------------------------
(* Properties *)

\* The bytes a+1 .. b of the logical content, computed from the content alone
ContentSlice(a, b) == IF b > a THEN [j \in 1..(b - a) |-> ContentByte(a + j)] ELSE <<>>

\* The bytes a+1 .. b of a text
Sub(t, a, b) == IF b > a THEN [j \in 1..(b - a) |-> t[a + j]] ELSE <<>>

\* C7: a PromptWrite created with skip offset `skip` over an empty buffer of capacity
\* CHAR_N holds, after any sequence of write_str calls, exactly the bytes of the
\* concatenated texts from index skip to min(len, skip + CHAR_N); the skip left to
\* consume is what the texts so far have not used up.
C7_BufferIsSliceOfOffered ==
    /\ sink.buffer.s = Sub(offered, Min(Len(offered), skip),
                           Min(Len(offered), skip + CHAR_N))
    /\ sink.offset = Max(0, skip - Len(offered))
    /\ rv \in {"none", "Ok"}

\* A skip was consumed, the buffer filled up and more text was offered after that.
C7_Witness ==
    /\ skip > 0
    /\ Len(sink.buffer.s) = CHAR_N
    /\ Len(offered) > skip + CHAR_N
    /\ rv = "Ok"

\* C8: after any sequence of write_str calls, total is the sum of the lengths of all
\* texts offered, whatever the skip and the buffer fill; and get_length of a producer
\* that writes those bytes (in any chunk size) measures that length.
C8_TotalCountsEverything ==
    /\ sink.total = Len(offered)
    /\ \A chunk \in 1..MaxText :
          LET m == get_length([len |-> Len(offered), chunk |-> chunk,
                               fallible |-> FALSE], FALSE)
          IN  m.rv = "Ok" /\ m.length = Len(offered)

\* Text was counted while all of it was skipped, and text was counted after the
\* buffer was full.
C8_Witness ==
    /\ skip > CHAR_N
    /\ sink.total > skip + CHAR_N
    /\ Len(sink.buffer.s) = CHAR_N

---------------------------------------------------------------------------
(* Properties of the scroller *)

\* ceil(x / d)
CeilDiv(x, d) == (x + d - 1) \div d

\* Bytes per page of the running layout
PageBytes == CHAR_N * RowsPerPage(layout)

\* The texts of the content rows on screen, top to bottom
RowLabels == SelectSeq(screen.labels, LAMBDA l : l.loc # "Top")
RowText(i) == IF i <= Len(RowLabels) THEN RowLabels[i].text ELSE <<>>

\* The text of the title row on screen
TopLabels == SelectSeq(screen.labels, LAMBDA l : l.loc = "Top")

\* The run has measured its content and counted its pages
Measured == content_len > 0

\* C1: with no left release, no both-buttons release and no failing producer call so
\* far, the prompt is still running on page nRight after 1 + nRight draws as long as
\* fewer than page_count right releases were handled, and the page_count-th right
\* release ends it as Accepted with no further draw.
C1_AcceptedOnLastRightRelease ==
    (Measured /\ pc \in {"loop", "returned"} /\ nLeft = 0 /\ ~failed
        /\ result # "Ok_false")
    => IF nRight < page_count
       THEN /\ pc = "loop"
            /\ result = "pending"
            /\ cur_page = nRight
            /\ nDraws = nRight + 1
       ELSE /\ nRight = page_count
            /\ pc = "returned"
            /\ result = "Ok_true"
            /\ ask(result)
            /\ nDraws = page_count

\* Accepted on the MAX_PAGES-th right release, with press events before it.
C1_Witness ==
    /\ result = "Ok_true"
    /\ nLeft = 0
    /\ page_count = MAX_PAGES
    /\ nRight = page_count
    /\ {"LEFT_S_ARROW", "RIGHT_S_ARROW"} \subseteq screen.icons

\* C2: while the scroller waits for an event a both-buttons release is always
\* possible, and it returns Ok(false) (Rejected) at once: the page index, the screen
\* and the draw and producer call counts stay as they were.
C2_BothReleaseRejects ==
    /\ [](pc = "loop" => ENABLED BothButtonsRelease)
    /\ [][BothButtonsRelease =>
            /\ pc' = "returned"
            /\ result' = "Ok_false"
            /\ ~ask(result')
            /\ cur_page' = cur_page
            /\ screen' = screen
            /\ nDraws' = nDraws
            /\ nCalls' = nCalls]_vars
    /\ [][result' = "Ok_false" => (result = "Ok_false" \/ pc = "loop")]_vars

\* Rejected on a later page, after left and right releases.
C2_Witness ==
    /\ result = "Ok_false"
    /\ cur_page > 0
    /\ nLeft > 0
    /\ nRight > 1

\* C3: once a producer call has returned Err (in the measurement, the first draw or
\* a redraw), ask_err has returned Err: ask gives false and write_scroller gives
\* None, the same as a rejection, and the run is never Accepted.
C3_FailureIsRejection ==
    failed => /\ pc = "returned"
              /\ result = "Err"
              /\ ask(result) = FALSE
              /\ ask(result) = ask("Ok_false")
              /\ write_scroller(result) = "None"
              /\ write_scroller(result) = write_scroller("Ok_false")

\* The producer failed in a redraw after a left release that followed right releases.
C3_Witness ==
    /\ failed
    /\ nLeft = 1
    /\ nRight >= 1
    /\ nDraws = nLeft + nRight + 1

\* C4: while the scroller waits for an event 0 <= cur_page < page_count; cur_page is
\* never negative, and it equals page_count only when the run has ended as Accepted.
C4_PageInRange ==
    /\ cur_page >= 0
    /\ Measured => cur_page <= page_count
    /\ pc = "loop" => (Measured /\ cur_page < page_count)
    /\ (Measured /\ cur_page = page_count) => (pc = "returned" /\ result = "Ok_true")

\* Two left releases on page 0 leave the scroller waiting on page 0.
C4_Witness ==
    /\ pc = "loop"
    /\ cur_page = 0
    /\ nLeft = 2
    /\ nRight = 0

\* C5: the page count is ceil(max(1, L) / (CHAR_N * K)), K = 1 or 3 rows per page:
\* at least 1, 1 for L = 0, L / (CHAR_N * K) for an exact multiple, 2 for
\* L = CHAR_N * K + 1.
C5_PageCountIsCeiling ==
    Measured =>
        LET L == contents.len
        IN  /\ content_len = Max(1, L)
            /\ page_count = CeilDiv(Max(1, L), PageBytes)
            /\ page_count >= 1
            /\ L = 0 => page_count = 1
            /\ (L > 0 /\ L % PageBytes = 0) => page_count * PageBytes = L
            /\ L = PageBytes + 1 => page_count = 2

\* A three-row run whose content is exactly one full page.
C5_Witness ==
    /\ Measured
    /\ layout = "ask_three_rows_err"
    /\ contents.len = 3 * CHAR_N
    /\ page_count = 1
    /\ pc = "loop"

\* Content rows of page p as the draw closure of the running layout draws them
DrawnRows(p) ==
    LET d == draw(layout, show_index, title, contents, content_len, page_count, p, 0)
        rows == SelectSeq(d.screen.labels, LAMBDA l : l.loc # "Top")
    IN  [i \in 1..Len(rows) |-> rows[i].text]

RECURSIVE Flatten(_)
Flatten(ss) == IF ss = <<>> THEN <<>> ELSE Head(ss) \o Flatten(Tail(ss))

RECURSIVE PagesText(_)
PagesText(p) == IF p < 0 THEN <<>> ELSE PagesText(p - 1) \o Flatten(DrawnRows(p))

\* C6: the row i (0-based) on screen of page p is the content from byte offset
\* (K * p + i) * CHAR_N up to the end of the row or of the content (K rows per page),
\* and the rows of pages 0 .. page_count - 1 put together are the whole content.
C6_PagesAreContentSlices ==
    pc = "loop" =>
        LET L == contents.len
            K == RowsPerPage(layout)
        IN  /\ \A i \in 0..(K - 1) :
                  RowText(i + 1) = ContentSlice(Min(L, (K * cur_page + i) * CHAR_N),
                                                Min(L, (K * cur_page + i + 1) * CHAR_N))
            /\ Len(RowLabels) <= K
            /\ PagesText(page_count - 1) = ContentSlice(0, L)

\* The second page of a three-row run holds the one byte past the first page.
C6_Witness ==
    /\ pc = "loop"
    /\ layout = "ask_three_rows_err"
    /\ contents.len = 3 * CHAR_N + 1
    /\ contents.chunk = 5
    /\ cur_page = 1
    /\ Len(RowLabels) = 1
    /\ Len(RowText(1)) = 1

\* C9: a content of more than MAX_PAGES pages (once measured) aborts before anything
\* is drawn, before any event is handled and with no result; a content of MAX_PAGES
\* pages or less does not abort: its first page is drawn and the prompt runs.
C9_AbortAboveLimit ==
    (pc # "call" /\ ~failed) =>
        IF CeilDiv(Max(1, contents.len), PageBytes) > MAX_PAGES
        THEN /\ pc = "panicked"
             /\ result = "pending"
             /\ screen = Blank
             /\ nDraws = 0
             /\ nLeft = 0
             /\ nRight = 0
        ELSE /\ pc \in {"loop", "returned"}
             /\ nDraws >= 1
             /\ 0 \in seen
             /\ page_count <= MAX_PAGES
             /\ (nLeft = 0 /\ nRight = page_count) => result = "Ok_true"

\* A single-row run of MAX_PAGES + 1 pages has aborted.
C9_Witness ==
    /\ pc = "panicked"
    /\ layout = "ask_err"
    /\ page_count = MAX_PAGES + 1
    /\ contents.len = CHAR_N * MAX_PAGES + 1

\* A three-row run of exactly MAX_PAGES pages was paged through to the end.
C9_AtLimitRuns ==
    /\ layout = "ask_three_rows_err"
    /\ page_count = MAX_PAGES
    /\ result = "Ok_true"

---------------------------------------------------------------------------
(* Properties of the title row *)

\* " (p/c)"
IndexSuffix(p, c) == <<SPACE, LPAREN>> \o Dec(p) \o <<SLASH>> \o Dec(c) \o <<RPAREN>>

\* Width reserved for the suffix: 6 if c < 10, 8 if c < 100, 10 otherwise
SuffixWidth(c) == IF c < 10 THEN 6 ELSE IF c < 100 THEN 8 ELSE 10

\* C10: with index display requested and a title of at most TITLE_N characters the
\* title row is title ++ " (p/c)" (p = page + 1, c = page_count) if and only if c > 1
\* and the title is at most TITLE_N - SuffixWidth(c) long; in every other case, and
\* whenever index display is not requested, it is the bare title.
C10_TitleRow ==
    (title_label.rv # "none" /\ Len(title) <= TITLE_N)
    => /\ title_label.rv = "Ok"
       /\ IF show_index /\ page_count > 1 /\ Len(title) <= TITLE_N - SuffixWidth(page_count)
          THEN title_label.buffer = title \o IndexSuffix(cur_page + 1, page_count)
          ELSE title_label.buffer = title

\* The title row was made by make_title_buffer and carries more than the bare title
SuffixAdded == title_label.rv = "Ok" /\ show_index /\ title_label.buffer # title

\* C11: for every page_count in 2..MAX_PAGES, every page below it and every title,
\* whenever make_title_buffer adds a suffix the title buffer holds all of
\* title ++ " (page+1/page_count)", closing parenthesis included.
C11_SuffixFits ==
    (SuffixAdded /\ page_count \in 2..MAX_PAGES /\ cur_page < page_count)
    => /\ title_label.buffer = title \o IndexSuffix(cur_page + 1, page_count)
       /\ Len(title_label.buffer) <= TITLE_N

\* The title of a page whose index has three digits, of fewer than MAX_PAGES pages,
\* carries its whole suffix.
SuffixFitsBelowLimit ==
    (SuffixAdded /\ page_count \in 2..(MAX_PAGES - 1) /\ cur_page < page_count)
    => title_label.buffer = title \o IndexSuffix(cur_page + 1, page_count)

---------------------------------------------------------------------------
(* Titles longer than the title buffer *)

\* (show_index, title length) with a title one character longer than the buffer
LongTitleArgs == {<<show, TITLE_N + 1>> : show \in BOOLEAN}

\* Short contents under an over-long title, of producers that never fail
InitLongTitle == ScrollerStart(Layouts \X Lens, {ContentPeriod}, FALSE, LongTitleArgs)

SpecLongTitle == InitLongTitle /\ [][Next]_vars

\* C12: with a title longer than TITLE_N characters the prompt runs as usual (its
\* first page is drawn, it waits for events and ends by Accepted or Rejected, never
\* by an abort), and the title row shows the first TITLE_N characters of the title
\* and no suffix; with index display requested the row is exactly those characters.
C12_LongTitleRuns ==
    (pc # "call" /\ Len(title) > TITLE_N)
    => /\ pc \in {"loop", "returned"}
       /\ nDraws >= 1
       /\ Len(TopLabels) = 1
       /\ Sub(TopLabels[1].text, 0, TITLE_N) = Sub(title, 0, TITLE_N)
       /\ show_index => Len(TopLabels[1].text) = TITLE_N

\* Without index display the over-long title is handed to the label as it is and
\* the prompt runs.
LongTitleShownBare ==
    (pc # "call" /\ Len(title) > TITLE_N /\ ~show_index)
    => /\ pc \in {"loop", "returned"}
       /\ TopLabels[1].text = title

---------------------------------------------------------------------------
(* Properties of the glyphs and of the events *)

\* The navigation glyphs a draw can leave on screen
NavGlyphs == {"LEFT_ARROW", "RIGHT_ARROW", "RIGHT_CHECK"}

\* The glyphs the draw closure of the running layout leaves for page p
DrawnGlyphs(p) ==
    draw(layout, show_index, title, contents, content_len, page_count, p, 0).screen.icons

\* C13: after every completed draw, in both layouts, the left arrow is on screen iff
\* page > 0, and exactly one right-side glyph is: the right arrow if
\* page + 1 < page_count, else the check glyph; so the check glyph is on screen
\* exactly on the last page.
C13_GlyphsOfPage ==
    pc = "loop" =>
        /\ ("LEFT_ARROW" \in screen.icons) <=> (cur_page > 0)
        /\ ("RIGHT_ARROW" \in screen.icons) <=> (cur_page + 1 < page_count)
        /\ ("RIGHT_CHECK" \in screen.icons) <=> (cur_page = page_count - 1)
        /\ Cardinality(screen.icons \cap {"RIGHT_ARROW", "RIGHT_CHECK"}) = 1
        /\ \A p \in 0..(page_count - 1) :
              DrawnGlyphs(p) = (IF p > 0 THEN {"LEFT_ARROW"} ELSE {})
                                   \cup (IF p + 1 < page_count THEN {"RIGHT_ARROW"}
                                         ELSE {"RIGHT_CHECK"})

\* The last of several three-row pages is on screen: left arrow and check glyph.
C13_Witness ==
    /\ pc = "loop"
    /\ layout = "ask_three_rows_err"
    /\ page_count > 1
    /\ cur_page = page_count - 1
    /\ screen.icons \cap NavGlyphs = {"LEFT_ARROW", "RIGHT_CHECK"}

\* A middle page of a single-row run is on screen: both arrows, no check glyph.
GlyphsOfMiddlePage ==
    /\ pc = "loop"
    /\ layout = "ask_err"
    /\ cur_page > 0
    /\ screen.icons \cap NavGlyphs = {"LEFT_ARROW", "RIGHT_ARROW"}

\* The transient pressed-arrow indicators
PressedGlyphs == {"LEFT_S_ARROW", "RIGHT_S_ARROW"}

\* C14: a left press, a right press, any other event and no event leave cur_page as
\* it is, keep the prompt waiting, clear and redraw nothing and call no producer; all
\* a press does is display its pressed-arrow indicator on top of what is shown.
C14_PressKeepsState ==
    [][(LeftButtonPress \/ RightButtonPress \/ OtherEvent) =>
          /\ pc = "loop" /\ pc' = "loop"
          /\ result' = result
          /\ cur_page' = cur_page
          /\ nDraws' = nDraws
          /\ nCalls' = nCalls
          /\ seen' = seen
          /\ screen'.labels = screen.labels
          /\ screen.icons \subseteq screen'.icons
          /\ (screen'.icons \ screen.icons) \subseteq PressedGlyphs
          /\ LeftButtonPress => screen'.icons = screen.icons \cup {"LEFT_S_ARROW"}
          /\ RightButtonPress => screen'.icons = screen.icons \cup {"RIGHT_S_ARROW"}
          /\ OtherEvent => screen' = screen]_vars

\* Both presses were handled on a later page: the page is still there, with its
\* glyphs and both indicators, and nothing was drawn for them.
C14_Witness ==
    /\ pc = "loop"
    /\ cur_page > 0
    /\ PressedGlyphs \subseteq screen.icons
    /\ "LEFT_ARROW" \in screen.icons
    /\ Len(screen.labels) >= 2
    /\ nDraws = nLeft + nRight + 1

\* The screen a complete draw of page p of the running layout leaves
DrawnScreen(p) ==
    draw(layout, show_index, title, contents, content_len, page_count, p, 0).screen

\* Producer calls of a complete draw of page p: one per row drawn
DrawnCalls(p) ==
    draw(layout, show_index, title, contents, content_len, page_count, p, 0).calls

\* What one redraw of page p by a release leaves behind
RedrawnOnce(p) ==
    /\ cur_page' = p
    /\ nDraws' = nDraws + 1
    /\ ~failed' => /\ pc' = "loop"
                   /\ screen' = DrawnScreen(p)
                   /\ screen'.icons \cap PressedGlyphs = {}
                   /\ nCalls' = nCalls + DrawnCalls(p)
                   /\ p \in seen'

\* C15: every left release sets cur_page to max(cur_page - 1, 0) and redraws that
\* page exactly once, on page 0 too; every right release that does not end the
\* prompt redraws page cur_page + 1 exactly once.  After a release that keeps the
\* prompt running the screen is the fresh page: no pressed-arrow indicator is left.
C15_ReleaseRedraws ==
    /\ [][(\E fail \in FailChoices : LeftButtonRelease(fail))
            => RedrawnOnce(Max(cur_page - 1, 0))]_vars
    /\ [][((\E fail \in FailChoices : RightButtonRelease(fail)) /\ result' # "Ok_true")
            => RedrawnOnce(cur_page + 1)]_vars
    /\ [][((\E fail \in FailChoices : RightButtonRelease(fail)) /\ result' = "Ok_true")
            => (nDraws' = nDraws /\ screen' = screen)]_vars

\* A left release on page 0 of a run of several pages, before any right release: the
\* page was drawn a second time and the scroller waits on page 0.
C15_Witness ==
    /\ pc = "loop"
    /\ page_count > 1
    /\ cur_page = 0
    /\ nLeft = 1
    /\ nRight = 0
    /\ nDraws = 2
    /\ screen = DrawnScreen(0)

\* C16: a three-row run and ask_err's loop over the same page_count, fed the same
\* events (the producer never failing), are in step: the same control state, the same
\* cur_page, the same number of draws, the same page drawn last, the same glyphs and
\* indicators on screen and the same outcome; the three-row run differs in the
\* divisor of page_count (3 * CHAR_N) and in the rows it draws (up to three).
C16_ThreeRowsSameMachine ==
    (layout = "ask_three_rows_err" /\ pc # "call" /\ ~failed)
    => /\ twin.pc = pc
       /\ twin.cur_page = cur_page
       /\ twin.result = result
       /\ twin.nDraws = nDraws
       /\ twin.icons = screen.icons
       /\ pc = "loop" => twin.drawn = <<cur_page>>
       /\ \A i \in 1..Len(twin.drawn) : twin.drawn[i] \in seen
       /\ page_count = CeilDiv(content_len, 3 * CHAR_N)
       /\ Len(RowLabels) \in 1..3

\* A three-row run of several pages was paged forth and back and then accepted, and
\* so was the single-row loop beside it.
C16_Witness ==
    /\ layout = "ask_three_rows_err"
    /\ page_count > 1
    /\ nLeft > 0
    /\ result = "Ok_true"
    /\ twin.result = "Ok_true"
    /\ twin.nDraws = nDraws
    /\ PressedGlyphs \subseteq twin.icons

---------------------------------------------------------------------------
(* The menu helper *)

\* Items of the menu of the caller
MenuItems == 3
\* Button events handed to handle_menu_button_event in one run
MaxMenuEvents == 4
\* Calls of show_menu in one run
MaxShows == 2

\* enum ButtonEvent
ButtonEvents == {"LeftButtonPress", "RightButtonPress", "BothButtonsPress",
                 "LeftButtonRelease", "RightButtonRelease", "BothButtonsRelease"}

\* A Menu of the caller: the items are cycled, and handle_both yields the item it is
\* on unless that is item 0.  Every capability invoked is logged.
move_left(m) ==
    [m EXCEPT !.item = (@ + MenuItems - 1) % MenuItems, !.log = Append(@, "move_left")]

move_right(m) ==
    [m EXCEPT !.item = (@ + 1) % MenuItems, !.log = Append(@, "move_right")]

handle_both(m) ==
    [menu |-> [m EXCEPT !.log = Append(@, "handle_both")],
     ret |-> IF m.item = 0 THEN <<>> ELSE <<m.item>>]

label(m) == m.item

\* show_menu: SingleMessage::new(menu.label()).show()
show_menu(m) == [m EXCEPT !.shown = <<label(m)>>, !.draws = @ + 1]

handle_menu_button_event_drops_result(m, btn) ==
    \* faulty variant: the value of handle_both is not returned
    CASE btn = "LeftButtonRelease" -> [menu |-> move_left(m), ret |-> <<>>]
      [] btn = "RightButtonRelease" -> [menu |-> move_right(m), ret |-> <<>>]
      [] btn = "BothButtonsRelease" -> [menu |-> handle_both(m).menu, ret |-> <<>>]
      [] OTHER -> [menu |-> m, ret |-> <<>>]

\* handle_menu_button_event(menu, btn) -> Option<BothResult>
handle_menu_button_event(m, btn) ==
    CASE btn = "LeftButtonRelease" -> [menu |-> move_left(m), ret |-> <<>>]
      [] btn = "RightButtonRelease" -> [menu |-> move_right(m), ret |-> <<>>]
      [] btn = "BothButtonsRelease" -> handle_both(m)
      [] OTHER -> [menu |-> m, ret |-> <<>>]

\* A menu on any item, before the caller has done anything with it
InitMenu ==
    /\ menu \in {[NoMenu EXCEPT !.item = i] : i \in 0..(MenuItems - 1)}
    /\ NoScroller
    /\ show_index = FALSE
    /\ title = <<>>
    /\ page_count = 0
    /\ cur_page = 0
    /\ title_label = NoLabel
    /\ NoSink

\* The caller hands a button event to handle_menu_button_event
MenuEvent(btn) ==
    /\ menu.events < MaxMenuEvents
    /\ LET r == handle_menu_button_event(menu, btn)
       IN  menu' = [r.menu EXCEPT !.ret = r.ret, !.events = @ + 1, !.last = btn]
    /\ UNCHANGED <<scrollerVars, sinkVars, title_label>>

\* The caller calls show_menu
ShowMenu ==
    /\ menu.draws < MaxShows
    /\ menu' = [show_menu(menu) EXCEPT !.last = "show_menu"]
    /\ UNCHANGED <<scrollerVars, sinkVars, title_label>>

NextMenu ==
    \/ \E btn \in ButtonEvents : MenuEvent(btn)
    \/ ShowMenu

SpecMenu == InitMenu /\ [][NextMenu]_vars

\* What handling btn does to the menu: the one capability invoked, and the result
Dispatched(btn) ==
    CASE btn = "LeftButtonRelease" ->
            /\ menu'.log = Append(menu.log, "move_left")
            /\ menu'.item = (menu.item + MenuItems - 1) % MenuItems
            /\ menu'.ret = <<>>
      [] btn = "RightButtonRelease" ->
            /\ menu'.log = Append(menu.log, "move_right")
            /\ menu'.item = (menu.item + 1) % MenuItems
            /\ menu'.ret = <<>>
      [] btn = "BothButtonsRelease" ->
            /\ menu'.log = Append(menu.log, "handle_both")
            /\ menu'.item = menu.item
            /\ menu'.ret = (IF menu.item = 0 THEN <<>> ELSE <<menu.item>>)
      [] OTHER ->
            /\ menu'.log = menu.log
            /\ menu'.item = menu.item
            /\ menu'.ret = <<>>

\* The label of the menu was drawn anew in this step
LabelRedrawn == menu'.draws = menu.draws + 1 /\ menu'.shown = <<menu'.item>>

\* Nothing was drawn in this step
NothingDrawn == menu'.draws = menu.draws /\ menu'.shown = menu.shown

\* C17 as claimed: a left (right) release invokes move_left (move_right) exactly once
\* and nothing else, the label of the menu is redrawn, and no result is yielded; a
\* both-buttons release invokes handle_both exactly once and returns what it yields;
\* every other event invokes nothing and yields nothing.
C17_MenuHelper ==
    [][\A btn \in ButtonEvents :
          MenuEvent(btn) =>
              /\ Dispatched(btn)
              /\ btn \in {"LeftButtonRelease", "RightButtonRelease"} => LabelRedrawn]_vars

\* C17 as amended: the same dispatch, but handle_menu_button_event draws nothing for
\* any event; the label on screen changes only when the caller calls show_menu,
\* which draws the label of the current item and invokes no capability.
C17_MenuHelperDispatch ==
    /\ [][\A btn \in ButtonEvents : MenuEvent(btn) => (Dispatched(btn) /\ NothingDrawn)]_vars
    /\ [][ShowMenu => /\ LabelRedrawn
                      /\ menu'.log = menu.log
                      /\ menu'.item = menu.item]_vars

\* After a move the label on screen is that of another item than the menu is on, and
\* a later both-buttons release has yielded the item as the result.
C17_Witness ==
    /\ menu.last = "BothButtonsRelease"
    /\ menu.ret = <<menu.item>>
    /\ menu.shown # <<>>
    /\ menu.shown # <<menu.item>>
    /\ "move_left" \in {menu.log[i] : i \in 1..Len(menu.log)}
    /\ "move_right" \in {menu.log[i] : i \in 1..Len(menu.log)}

\* C18: a run that ends as Accepted has drawn every page 0 .. page_count - 1
\* completely at least once, no producer call has failed, the page on screen is the
\* last one (check glyph, no right arrow), and the step that accepts is a right
\* release handled while the last page is on screen; no other step accepts.
C18_AcceptedAfterAllPages ==
    /\ [](result = "Ok_true" =>
            /\ page_count >= 1
            /\ seen = 0..(page_count - 1)
            /\ ~failed
            /\ nDraws >= page_count
            /\ cur_page = page_count
            /\ screen.labels = DrawnScreen(page_count - 1).labels
            /\ "RIGHT_CHECK" \in screen.icons
            /\ "RIGHT_ARROW" \notin screen.icons)
    /\ [][(result # "Ok_true" /\ result' = "Ok_true") =>
            /\ \E fail \in FailChoices : RightButtonRelease(fail)
            /\ pc = "loop"
            /\ cur_page = page_count - 1
            /\ "RIGHT_CHECK" \in screen.icons
            /\ screen' = screen]_vars

\* A run of at least three pages was accepted after paging back on the way.
C18_Witness ==
    /\ result = "Ok_true"
    /\ page_count >= 3
    /\ nLeft > 0
    /\ nRight > page_count
    /\ seen = 0..(page_count - 1)

---------------------------------------------------------------------------
(* A PromptWrite offered text with multi-byte characters *)

\* Characters per text passed to write_str
MaxChars == 2
\* Total bytes offered to the PromptWrite
MaxUtf8Bytes == 6
\* Skip offsets of the PromptWrite
MaxUtf8Skip == 3
\* Free bytes left in a buffer that is already partly filled
MaxRoom == 2

\* UTF-8 encodings of "A", "e acute" (C3 A9) and the euro sign (E2 82 AC);
\* continuation bytes are written negative
Utf8Chars == {<<LETTER_A>>, <<195, -169>>, <<226, -130, -172>>}

\* The texts of at most n characters
RECURSIVE Utf8Texts(_)
Utf8Texts(n) ==
    IF n = 0 THEN {<<>>}
    ELSE Utf8Texts(n - 1) \cup {t \o c : t \in Utf8Texts(n - 1), c \in Utf8Chars}

\* A PromptWrite with a skip offset over a buffer that is empty, nearly full or full
\* (mk_prompt_write over a title buffer that holds the title; a draw's fresh buffer)
InitUtf8 ==
    /\ skip \in 0..MaxUtf8Skip
    /\ \E fill \in {0} \cup {CHAR_N - room : room \in 0..MaxRoom} :
          sink = PromptWrite(skip, [ArrayString_new(CHAR_N) EXCEPT !.s = TitleOf(fill)])
    /\ offered = <<>>
    /\ rv = "none"
    /\ NoScroller
    /\ show_index = FALSE
    /\ title = <<>>
    /\ page_count = 0
    /\ cur_page = 0
    /\ title_label = NoLabel
    /\ menu = NoMenu

\* write_str(s) of a text s
WriteText(s) ==
    /\ rv # "Panic"
    /\ Len(offered) + Len(s) <= MaxUtf8Bytes
    /\ LET r == write_str(sink, s)
       IN  /\ sink' = r.self
           /\ rv' = r.rv
           /\ offered' = offered \o s
    /\ UNCHANGED <<skip, scrollerVars, title_label, menu>>

NextUtf8 == \E s \in Utf8Texts(MaxChars) : WriteText(s)

SpecUtf8 == InitUtf8 /\ [][NextUtf8]_vars

\* C19: write_str never fails: whatever the skip offset, the fill of the buffer and
\* the text (multi-byte characters across the skip offset or across the end of the
\* free space included) it returns Ok and does not panic, and the buffer never
\* exceeds its capacity.
C19_WriteStrNeverFails ==
    /\ rv \in {"none", "Ok"}
    /\ Len(sink.buffer.s) <= CHAR_N

\* Text of single-byte characters is never refused, whatever the skip and the fill.
SingleByteNeverFails ==
    (\A i \in 1..Len(offered) : offered[i] = LETTER_A) => rv \in {"none", "Ok"}

\* write_str returns Ok or panics; it never returns Err.
WriteStrNeverErr == rv # "Err"

\* C20: the page count computed for any content length L >= 0 is at least 1 in both
\* layouts, so the early return Ok(true) for page_count = 0 is never taken; every
\* Accepted run has drawn its first page and has handled at least page_count >= 1
\* right releases.
C20_NoAcceptWithoutInput ==
    /\ \A lay \in Layouts, L \in 0..((MaxRows + 1) * 3 * CHAR_N) :
          page_count_of(lay, Max(1, L)) >= 1
    /\ Measured => page_count >= 1
    /\ result = "Ok_true" => /\ pc = "returned"
                             /\ page_count >= 1
                             /\ nDraws >= 1
                             /\ 0 \in seen
                             /\ nRight >= page_count
                             /\ nRight >= 1

\* An empty content was accepted: one page, one draw, one right release.
C20_Witness ==
    /\ result = "Ok_true"
    /\ contents.len = 0
    /\ page_count = 1
    /\ nDraws = 1
    /\ nRight = 1
    /\ nLeft = 0

=============================================================================
